---------------------------- MODULE Spec2Model ----------------------------
(***************************************************************************)
(* A model of the Kontra API's computational core: the draw-request risk   *)
(* score, the amortization-schedule generator, the application of loan     *)
(* payments, the assistant's function dispatch and the handlers that call  *)
(* them.  JavaScript Numbers are modelled as IEEE-754 binary64 values with *)
(* round-to-nearest-even arithmetic, NaN, signed zero and the infinities;  *)
(* JavaScript Dates as instants with UTC and local calendar fields.        *)
(***************************************************************************)
EXTENDS Integers, Sequences, FiniteSets

(***************************************************************************)
(* Natural numbers of any size: little-endian sequences of base-2^15       *)
(* digits without leading zero digits (<<>> is 0).  They carry the 53-bit  *)
(* significands and the exact intermediate results of Number arithmetic.   *)
(***************************************************************************)
DigitBase == 2^15

RECURSIVE IntBitLen(_)
IntBitLen(n) == IF n = 0 THEN 0 ELSE 1 + IntBitLen(n \div 2)

DigitBits == IntBitLen(DigitBase) - 1

Max(a, b) == IF a >= b THEN a ELSE b

Min(a, b) == IF a <= b THEN a ELSE b

RECURSIVE BFromInt(_)
BFromInt(n) == IF n = 0 THEN <<>> ELSE <<n % DigitBase>> \o BFromInt(n \div DigitBase)

RECURSIVE BNorm(_)
BNorm(a) ==
    IF a = <<>> THEN <<>>
    ELSE IF a[Len(a)] = 0 THEN BNorm(SubSeq(a, 1, Len(a) - 1))
    ELSE a

RECURSIVE BAddC(_, _, _)
BAddC(a, b, c) ==
    IF a = <<>> /\ b = <<>> THEN (IF c = 0 THEN <<>> ELSE <<c>>)
    ELSE LET x == (IF a = <<>> THEN 0 ELSE Head(a))
                  + (IF b = <<>> THEN 0 ELSE Head(b)) + c
         IN  <<x % DigitBase>>
             \o BAddC(IF a = <<>> THEN <<>> ELSE Tail(a),
                      IF b = <<>> THEN <<>> ELSE Tail(b),
                      x \div DigitBase)

BAdd(a, b) == BAddC(a, b, 0)

\* a - b - c for a >= b + c, digit by digit with a borrow; not yet normalised.
RECURSIVE BSubC(_, _, _)
BSubC(a, b, c) ==
    IF a = <<>> THEN <<>>
    ELSE LET x == Head(a) - (IF b = <<>> THEN 0 ELSE Head(b)) - c
         IN  <<x % DigitBase>>
             \o BSubC(Tail(a), IF b = <<>> THEN <<>> ELSE Tail(b),
                      IF x < 0 THEN 1 ELSE 0)

BSub(a, b) == BNorm(BSubC(a, b, 0))

\* -1, 0 or 1 as a < b, a = b or a > b.
RECURSIVE BCmpTop(_, _, _)
BCmpTop(a, b, i) ==
    IF i = 0 THEN 0
    ELSE IF a[i] < b[i] THEN -1
    ELSE IF a[i] > b[i] THEN 1
    ELSE BCmpTop(a, b, i - 1)

BCmp(a, b) ==
    IF Len(a) < Len(b) THEN -1
    ELSE IF Len(a) > Len(b) THEN 1
    ELSE BCmpTop(a, b, Len(a))

\* a * s + c for a digit-sized s and c.
RECURSIVE BMulS(_, _, _)
BMulS(a, s, c) ==
    IF a = <<>> THEN (IF c = 0 THEN <<>> ELSE <<c>>)
    ELSE LET x == Head(a) * s + c
         IN  <<x % DigitBase>> \o BMulS(Tail(a), s, x \div DigitBase)

BShlDigits(a, d) == IF a = <<>> THEN <<>> ELSE [i \in 1..d |-> 0] \o a

\* a * b, a digit of b at a time.
RECURSIVE BMulBy(_, _)
BMulBy(a, b) ==
    IF a = <<>> \/ b = <<>> THEN <<>>
    ELSE BAdd(BNorm(BMulS(a, Head(b), 0)), BShlDigits(BMulBy(a, Tail(b)), 1))

BMul(a, b) == IF Len(a) >= Len(b) THEN BMulBy(a, b) ELSE BMulBy(b, a)

\* floor(a / s) for a digit-sized s > 0, from the most significant digit down.
RECURSIVE BDivS(_, _, _, _)
BDivS(a, s, i, rem) ==
    IF i = 0 THEN <<>>
    ELSE LET x == rem * DigitBase + a[i]
         IN  BDivS(a, s, i - 1, x % s) \o <<x \div s>>

\* a * 2^k
BShl(a, k) ==
    BShlDigits(BNorm(BMulS(a, 2^(k % DigitBits), 0)), k \div DigitBits)

\* floor(a / 2^k)
BShr(a, k) ==
    LET d == k \div DigitBits
    IN  IF d >= Len(a) THEN <<>>
        ELSE LET hi == SubSeq(a, d + 1, Len(a))
             IN  BNorm(BDivS(hi, 2^(k % DigitBits), Len(hi), 0))

BBitLen(a) ==
    IF a = <<>> THEN 0 ELSE DigitBits * (Len(a) - 1) + IntBitLen(a[Len(a)])

BIsOdd(a) == a # <<>> /\ Head(a) % 2 = 1

RECURSIVE IntTz(_)
IntTz(n) == IF n % 2 = 1 THEN 0 ELSE 1 + IntTz(n \div 2)

\* The number of trailing zero bits of a > 0.
RECURSIVE BTz(_)
BTz(a) == IF Head(a) = 0 THEN DigitBits + BTz(Tail(a)) ELSE IntTz(Head(a))

\* The greatest digit q with b * q <= cur, at or below the estimate q.
RECURSIVE BQuotFix(_, _, _)
BQuotFix(cur, b, q) ==
    IF BCmp(BNorm(BMulS(b, q, 0)), cur) <= 0 THEN q ELSE BQuotFix(cur, b, q - 1)

\* The greatest digit q with b * q <= cur, for cur < b * DigitBase and a b whose
\* top digit has its top bit set: the quotient of their leading digits is at
\* most 2 above it.
BQuotDigit(cur, b) ==
    IF Len(cur) < Len(b) THEN 0
    ELSE BQuotFix(cur, b,
             Min(((IF Len(cur) > Len(b) THEN cur[Len(b) + 1] * DigitBase ELSE 0)
                      + cur[Len(b)]) \div b[Len(b)],
                 DigitBase - 1))

\* Long division of a by b > 0 from the most significant digit down: q holds
\* the quotient digits found above digit i, rem the remainder they leave, cur
\* the remainder with digit i brought down, and qd the quotient digit it gives.
RECURSIVE BDivLoop(_, _, _, _, _)
BDivNext(a, b, i, q, rem) ==
    IF Len(q) > 0 /\ Len(rem) >= 0 THEN BDivLoop(a, b, i - 1, q, rem) ELSE <<q, rem>>

BDivDigit(a, b, i, q, cur, qd) ==
    BDivNext(a, b, i, <<qd>> \o q, BSub(cur, BNorm(BMulS(b, qd, 0))))

BDivStep(a, b, i, q, cur) == BDivDigit(a, b, i, q, cur, BQuotDigit(cur, b))

BDivLoop(a, b, i, q, rem) ==
    IF i = 0 THEN <<BNorm(q), rem>>
    ELSE BDivStep(a, b, i, q, BNorm(<<a[i]>> \o rem))

BDivScaled(a, b, sh, qr) == <<qr[1], BShr(qr[2], sh)>>

BDivShifted(a, b, sh) == BDivScaled(a, b, sh, BDivLoop(a, b, Len(a), <<>>, <<>>))

\* <<floor(a / b), a mod b>> for b > 0: both are first scaled to set the top
\* bit of b's top digit.
BDivAt(a, b, sh) == BDivShifted(BShl(a, sh), BShl(b, sh), sh)

BDivMod(a, b) == BDivAt(a, b, DigitBits - IntBitLen(b[Len(b)]))

RECURSIVE BPow(_, _)
BPow(a, n) == IF n = 0 THEN <<1>> ELSE BMul(a, BPow(a, n - 1))

(***************************************************************************)
(* JavaScript Numbers (IEEE-754 binary64).  A finite non-zero value is     *)
(* m * 2^e with an odd significand m of at most MantBits bits; k tells the *)
(* class of the value, neg its sign.                                       *)
(***************************************************************************)
MantBits == 53

\* The least exponent of a bit of a (subnormal) double, and the bound of a finite one.
MinBitExp == 0 - 1074

MaxValExp == 1024

NaN == [k |-> "nan", neg |-> FALSE, m |-> <<>>, e |-> 0]

Infinity(neg) == [k |-> "inf", neg |-> neg, m |-> <<>>, e |-> 0]

Zero(neg) == [k |-> "zero", neg |-> neg, m |-> <<>>, e |-> 0]

\* m * 2^e for an odd m that needs no rounding.
CanonOdd(neg, m, e) ==
    IF BBitLen(m) + e > MaxValExp THEN Infinity(neg)
    ELSE [k |-> "fin", neg |-> neg, m |-> m, e |-> e]

CanonTz(neg, m, e, t) == CanonOdd(neg, BShr(m, t), e + t)

\* m * 2^e for an m that needs no rounding, with its trailing zero bits moved to e.
Canon(neg, m, e) == IF m = <<>> THEN Zero(neg) ELSE CanonTz(neg, m, e, BTz(m))

\* Whether hi, the kept bits of a magnitude, is to be incremented for the
\* dropped bits lo, which compare as c to half a unit of hi: to the "nearest"
\* (ties to even), or to the double next "down" (toward -Infinity) or "up".
RoundsAway(neg, hi, lo, c, mode) ==
    CASE mode = "nearest" -> c > 0 \/ (c = 0 /\ BIsOdd(hi))
      [] mode = "down"    -> lo # <<>> /\ neg
      [] mode = "up"      -> lo # <<>> /\ ~neg

PackRounded(neg, hi, lo, half, e, mode) ==
    Canon(neg,
          IF RoundsAway(neg, hi, lo, BCmp(lo, half), mode) THEN BAdd(hi, <<1>>) ELSE hi,
          e)

PackHi(neg, m, hi, drop, e, mode) ==
    PackRounded(neg, hi, BSub(m, BShl(hi, drop)), BShl(<<1>>, drop - 1), e + drop, mode)

\* The double that m * 2^e rounds to: the low `drop` bits of m do not fit.
PackDrop(neg, m, e, drop, mode) ==
    IF drop <= 0 THEN PackRounded(neg, m, <<>>, <<1>>, e, mode)
    ELSE PackHi(neg, m, BShr(m, drop), drop, e, mode)

Pack(neg, m, e, mode) ==
    IF m = <<>> THEN Zero(neg)
    ELSE PackDrop(neg, m, e, Max(BBitLen(m) - MantBits, MinBitExp - e), mode)

\* The Number of an integer literal.
Num(n) == IF n < 0 THEN Pack(TRUE, BFromInt(0 - n), 0, "nearest")
          ELSE Pack(FALSE, BFromInt(n), 0, "nearest")

\* n / 2^s, for Number literals with a binary fraction.
NumFrac(n, s) == IF n < 0 THEN Pack(TRUE, BFromInt(0 - n), 0 - s, "nearest")
                 ELSE Pack(FALSE, BFromInt(n), 0 - s, "nearest")

NumNeg(x) == IF x.k = "nan" THEN x ELSE [x EXCEPT !.neg = ~x.neg]

IsNaN(x) == x.k = "nan"

IsFinite(x) == x.k \in {"zero", "fin"}

\* The sum of the magnitudes a * 2^e and b * 2^e with their signs; c is BCmp(a, b).
AddAligned(xneg, yneg, a, b, c, e) ==
    IF xneg # yneg /\ c = 0 THEN Zero(FALSE)
    ELSE Pack(IF xneg = yneg \/ c > 0 THEN xneg ELSE yneg,
              IF xneg = yneg THEN BAdd(a, b)
              ELSE IF c > 0 THEN BSub(a, b) ELSE BSub(b, a),
              e, "nearest")

AddMagnitudes(xneg, yneg, a, b, e) == AddAligned(xneg, yneg, a, b, BCmp(a, b), e)

AddAt(x, y, e) == AddMagnitudes(x.neg, y.neg, BShl(x.m, x.e - e), BShl(y.m, y.e - e), e)

\* x + y
NumAdd(x, y) ==
    IF x.k = "nan" \/ y.k = "nan" THEN NaN
    ELSE IF x.k = "inf"
         THEN (IF y.k = "inf" /\ y.neg # x.neg THEN NaN ELSE x)
    ELSE IF y.k = "inf" THEN y
    ELSE IF x.k = "zero"
         THEN (IF y.k = "zero" THEN Zero(x.neg /\ y.neg) ELSE y)
    ELSE IF y.k = "zero" THEN x
    \* an operand below a quarter of the other's last bit rounds away
    ELSE IF x.e - y.e > 2 * MantBits + 2 THEN x
    ELSE IF y.e - x.e > 2 * MantBits + 2 THEN y
    ELSE AddAt(x, y, Min(x.e, y.e))

\* x - y
NumSub(x, y) == NumAdd(x, NumNeg(y))

\* x * y
NumMul(x, y) ==
    IF x.k = "nan" \/ y.k = "nan" THEN NaN
    ELSE IF x.k = "inf" \/ y.k = "inf"
         THEN (IF x.k = "zero" \/ y.k = "zero" THEN NaN
               ELSE Infinity(x.neg # y.neg))
    ELSE IF x.k = "zero" \/ y.k = "zero" THEN Zero(x.neg # y.neg)
    ELSE Pack(x.neg # y.neg, BMul(x.m, y.m), x.e + y.e, "nearest")

\* The double that a / b * 2^e rounds to, for naturals a, b > 0: a quotient of
\* at least MantBits + 2 bits, and one more bit that tells whether it is exact.
PackQuotientOf(neg, qr, e, mode) ==
    Pack(neg, BAdd(BShl(qr[1], 1), IF qr[2] = <<>> THEN <<>> ELSE <<1>>), e, mode)

PackQuotientAt(neg, a, b, e, s, mode) ==
    PackQuotientOf(neg, BDivMod(BShl(a, s), b), e - s - 1, mode)

PackQuotient(neg, a, b, e, mode) ==
    PackQuotientAt(neg, a, b, e, Max(0, MantBits + 2 + BBitLen(b) - BBitLen(a)), mode)

\* x / y
NumDiv(x, y) ==
    IF x.k = "nan" \/ y.k = "nan" THEN NaN
    ELSE IF x.k = "inf"
         THEN (IF y.k = "inf" THEN NaN ELSE Infinity(x.neg # y.neg))
    ELSE IF y.k = "inf" THEN Zero(x.neg # y.neg)
    ELSE IF y.k = "zero"
         THEN (IF x.k = "zero" THEN NaN ELSE Infinity(x.neg # y.neg))
    ELSE IF x.k = "zero" THEN Zero(x.neg # y.neg)
    ELSE PackQuotient(x.neg # y.neg, x.m, y.m, x.e - y.e, "nearest")

\* x === y for Numbers: NaN equals nothing, and -0 equals +0.
NumEq(x, y) ==
    /\ x.k # "nan"
    /\ y.k # "nan"
    /\ \/ x = y
       \/ x.k = "zero" /\ y.k = "zero"

IsNegative(x) == x.k \in {"fin", "inf"} /\ x.neg

\* x < y
NumLt(x, y) ==
    /\ x.k # "nan"
    /\ y.k # "nan"
    /\ ~NumEq(x, y)
    /\ IsNegative(NumSub(x, y))

\* x > y
NumGt(x, y) == NumLt(y, x)

\* Math.pow(x, y) for an integral exponent y.  ECMAScript leaves Math.pow
\* implementation-approximated: the result is one of the two doubles next to
\* the exact power ("down" or "up"), and the exact power when it is a double.
MathPow(x, y, mode) ==
    IF y = 0 THEN Pack(FALSE, <<1>>, 0, "nearest")
    ELSE IF x.k = "nan" THEN NaN
    ELSE LET n   == IF y < 0 THEN 0 - y ELSE y
             neg == x.neg /\ n % 2 = 1
         IN  IF x.k = "inf" THEN (IF y > 0 THEN Infinity(neg) ELSE Zero(neg))
             ELSE IF x.k = "zero" THEN (IF y > 0 THEN Zero(neg) ELSE Infinity(neg))
             ELSE IF y > 0 THEN Pack(neg, BPow(x.m, n), x.e * n, mode)
             ELSE PackQuotient(neg, <<1>>, BPow(x.m, n), 0 - x.e * n, mode)

RECURSIVE BToInt(_)
BToInt(a) == IF a = <<>> THEN 0 ELSE Head(a) + DigitBase * BToInt(Tail(a))

\* The integer part of the magnitude of a finite x.
TruncMagnitude(x) ==
    IF x.k = "zero" THEN 0
    ELSE IF x.e >= 0 THEN BToInt(BShl(x.m, x.e)) ELSE BToInt(BShr(x.m, 0 - x.e))

\* The integer that a finite x is, or truncates to.
IntOf(x) == IF x.neg THEN 0 - TruncMagnitude(x) ELSE TruncMagnitude(x)

(***************************************************************************)
(* JSON values of a request body, as far as the handlers read them: a      *)
(* missing field, a Number, or a string known by its length (and, for a    *)
(* numeric string, by the Number it converts to).                          *)
(***************************************************************************)
Undefined == [t |-> "undefined"]

JNum(x) == [t |-> "number", v |-> x]

JStr(len) == [t |-> "string", len |-> len, v |-> NaN]

JNumStr(len, x) == [t |-> "string", len |-> len, v |-> x]

\* !v
Falsy(v) ==
    \/ v.t = "undefined"
    \/ v.t = "number" /\ v.v.k \in {"zero", "nan"}
    \/ v.t = "string" /\ v.len = 0

\* The Number a comparison or an arithmetic operator converts v to.
ToNumber(v) == IF v.t = "undefined" THEN NaN ELSE v.v

(***************************************************************************)
(* The draw_requests table and POST /api/draw-request.                     *)
(***************************************************************************)
\* Rows of draw_requests.
MaxDraws == 2

MsPerDay == 1000 * 60 * 60 * 24

\* What new Date() reads when a request arrives, in ms from the model's origin:
\* it is the wall clock, which an adjustment may set back between two requests.
ClockValues == {0, 3 * MsPerDay, 7 * MsPerDay}

Projects == {"p1", "p2"}

VARIABLES
    drawRequests,   \* the draw_requests table
    drawResp,       \* the response of the last POST /api/draw-request
    riskCall        \* the last call of calculateRiskScore and its outcome

riskVars == <<drawRequests, drawResp, riskCall>>

VARIABLES
    loans,          \* the loans table; the id of a loan is its index
    loanResp,       \* the response of the last POST /api/loans
    schedules,      \* the amortization_schedules table
    schedResp,      \* the response of the last POST /api/loans/:loanId/generate-schedule
    schedCall       \* what the last generate-schedule request computed

schedVars == <<loans, loanResp, schedules, schedResp, schedCall>>

VARIABLES
    payments,       \* the payments table
    payResp,        \* the response of the last POST /api/loans/:loanId/payments
    payCall,        \* what the last payment request computed
    pending         \* the payment requests in flight, each at one of its awaits

payVars == <<payments, payResp, payCall, pending>>

VARIABLES
    askState,       \* where the POST /api/ask request in progress stands
    askResp,        \* the response of the last POST /api/ask
    askCall         \* the model's decision in that request and what it led to

askVars == <<askState, askResp, askCall>>

vars == <<riskVars, schedVars, payVars, askVars>>

NoResponse == [status |-> 0]

NoCall == [made |-> FALSE]

(***************************************************************************)
(* calculateRiskScore({ amount, description, lastSubmittedAt }), called    *)
(* when new Date() reads `clock`.  lastSubmittedAt is Undefined or the     *)
(* timestamp of a row.  The outcome is a score, or the TypeError of        *)
(* reading .length of undefined.                                           *)
(***************************************************************************)
Returned(score) == [threw |-> FALSE, score |-> score]

Threw == [threw |-> TRUE, score |-> 0]

\* A variant that penalises the threshold amount itself.
AmountPenaltyFromThreshold(score, amount) ==
    IF ~NumLt(ToNumber(amount), Num(100000)) THEN score - 20 ELSE score

\* if (amount > 100000) score -= 20;
AmountPenalty(score, amount) ==
    IF NumGt(ToNumber(amount), Num(100000)) THEN score - 20 ELSE score

\* A variant that adds the penalty.
DescriptionPenaltyAdded(score, description) ==
    IF description.len < 15 THEN score + 10 ELSE score

\* if (description.length < 15) score -= 10;
DescriptionPenalty(score, description) ==
    IF description.len < 15 THEN score - 10 ELSE score

\* (new Date() - new Date(lastSubmittedAt)) / (1000 * 60 * 60 * 24)
DiffInDays(lastSubmittedAt, clock) ==
    NumDiv(Num(clock - lastSubmittedAt.ms), Num(1000 * 60 * 60 * 24))

\* A variant that adds the penalty.
ResubmissionPenaltyAdded(score, lastSubmittedAt, clock) ==
    IF ~Falsy(lastSubmittedAt) /\ NumLt(DiffInDays(lastSubmittedAt, clock), Num(7))
    THEN score + 15 ELSE score

\* if (lastSubmittedAt) { ... if (diffInDays < 7) score -= 15; }
ResubmissionPenalty(score, lastSubmittedAt, clock) ==
    IF ~Falsy(lastSubmittedAt) /\ NumLt(DiffInDays(lastSubmittedAt, clock), Num(7))
    THEN score - 15 ELSE score

calculateRiskScore(amount, description, lastSubmittedAt, clock) ==
    IF description.t = "undefined" THEN Threw
    ELSE Returned(Max(ResubmissionPenalty(
                          DescriptionPenalty(AmountPenalty(100, amount), description),
                          lastSubmittedAt, clock),
                      0))

\* The ISO timestamp of the instant ms.
Timestamp(ms) == [t |-> "string", len |-> 24, ms |-> ms]

\* The rows of a project, by their index.
DrawsOf(project) == {i \in 1..Len(drawRequests) : drawRequests[i].project = project}

\* .order('submitted_at', { ascending: false }).limit(1)
LatestSubmission(rows) ==
    CHOOSE t \in {drawRequests[i].submitted_at : i \in rows} :
        \A i \in rows : drawRequests[i].submitted_at <= t

\* lastDraw?.submitted_at of the .eq('project', project) ... .maybeSingle() row
LastSubmittedAt(project) ==
    IF DrawsOf(project) = {} THEN Undefined
    ELSE Timestamp(LatestSubmission(DrawsOf(project)))

\* A variant of the check of the required fields that forgets the description.
MissingDrawFieldsButDescription(body) ==
    \/ Falsy(body.project)
    \/ Falsy(body.amount)
    \/ ~body.others

\* !project || !amount || !description || !project_number || !property_location
MissingDrawFields(body) ==
    \/ Falsy(body.project)
    \/ Falsy(body.amount)
    \/ Falsy(body.description)
    \/ ~body.others

(***************************************************************************)
(* POST /api/draw-request: the request arrives when the clock reads `now`. *)
(***************************************************************************)
\* The response to the outcome `out` of the risk score, after the insert of
\* the row (which fails or not).  The row's submitted_at is a second reading
\* of the clock, taken here in the same millisecond as the first.
InsertDraw(body, now, last, out) ==
    /\ riskCall' = [made |-> TRUE, amount |-> body.amount,
                    description |-> body.description,
                    lastSubmittedAt |-> last, clock |-> now,
                    threw |-> out.threw, score |-> out.score]
    /\ IF out.threw
       THEN \* the rejection of the async handler: no response is sent
            /\ drawResp' = NoResponse
            /\ UNCHANGED drawRequests
       ELSE \E insertError \in BOOLEAN :
                IF insertError
                THEN /\ drawResp' = [status |-> 500]
                     /\ UNCHANGED drawRequests
                ELSE /\ drawResp' = [status |-> 200]
                     /\ drawRequests' = Append(drawRequests,
                                               [project      |-> body.project.name,
                                                amount       |-> body.amount,
                                                description  |-> body.description,
                                                risk_score   |-> out.score,
                                                submitted_at |-> now])

ScoreDraw(body, now, last) ==
    InsertDraw(body, now, last,
               calculateRiskScore(body.amount, body.description, last, now))

SubmitDraw(body, now) ==
    /\ Len(drawRequests) < MaxDraws
    /\ IF MissingDrawFields(body)
       THEN /\ drawResp' = [status |-> 400]
            /\ riskCall' = NoCall
            /\ UNCHANGED drawRequests
       ELSE \E lastDrawError \in BOOLEAN :
                IF lastDrawError
                THEN /\ drawResp' = [status |-> 500]
                     /\ riskCall' = NoCall
                     /\ UNCHANGED drawRequests
                ELSE ScoreDraw(body, now, LastSubmittedAt(body.project.name))

JProject(p) == [t |-> "string", len |-> 2, name |-> p]

\* Request bodies with every field present (amounts at and above the 100000
\* threshold, descriptions below and at the 15-character one),
ValidDrawBodies ==
    [project : {JProject(p) : p \in Projects},
     amount : {JNum(Num(100000)), JNum(Num(150000))},
     description : {JStr(5), JStr(15)},
     others : {TRUE}]

\* and bodies with one field missing, empty or zero.
InvalidDrawBodies ==
    LET ok == [project |-> JProject("p1"), amount |-> JNum(Num(150000)),
               description |-> JStr(5), others |-> TRUE]
    IN  {[ok EXCEPT !.project = Undefined],
         [ok EXCEPT !.amount = Undefined],
         [ok EXCEPT !.amount = JNum(Num(0))],
         [ok EXCEPT !.description = Undefined],
         [ok EXCEPT !.description = JStr(0)],
         [ok EXCEPT !.others = FALSE]}

DrawBodies == ValidDrawBodies \cup InvalidDrawBodies

SubmitDrawRequest ==
    /\ \E body \in DrawBodies, now \in ClockValues : SubmitDraw(body, now)
    /\ UNCHANGED <<schedVars, payVars, askVars>>

InitRisk ==
    /\ drawRequests = <<>>
    /\ drawResp = NoResponse
    /\ riskCall = NoCall

(***************************************************************************)
(* The risk score, as the specification states it.  The amounts of the     *)
(* model are whole numbers and the elapsed time is a whole number of ms,   *)
(* so the three conditions are stated over the integers.                   *)
(***************************************************************************)
SevenDays == 7 * MsPerDay

LargeAmount(amount) == IntOf(amount.v) > 100000

ShortDescription(description) == description.len < 15

RecentSubmission(lastSubmittedAt, clock) ==
    /\ lastSubmittedAt # Undefined
    /\ clock - lastSubmittedAt.ms < SevenDays

ExpectedScore(amount, description, lastSubmittedAt, clock) ==
    Max(0, 100 - (IF LargeAmount(amount) THEN 20 ELSE 0)
               - (IF ShortDescription(description) THEN 10 ELSE 0)
               - (IF RecentSubmission(lastSubmittedAt, clock) THEN 15 ELSE 0))

\* C1: whenever calculateRiskScore returns, the score is
\* max(0, 100 - 20*[amount > 100000] - 10*[description shorter than 15]
\*              - 15*[lastSubmittedAt present and less than 7 days before now]):
\* the penalties stack, and an amount of exactly 100000, a description of
\* exactly 15 characters and an elapsed time of exactly 7 days cost nothing.
C1_ScoreFormula ==
    (riskCall.made /\ ~riskCall.threw) =>
        riskCall.score = ExpectedScore(riskCall.amount, riskCall.description,
                                       riskCall.lastSubmittedAt, riskCall.clock)

\* amount = 150000, description = "short", last submission 3 days ago: 55
C1_Witness ==
    /\ riskCall.made
    /\ IntOf(riskCall.amount.v) = 150000
    /\ riskCall.description.len = 5
    /\ riskCall.lastSubmittedAt # Undefined
    /\ riskCall.clock - riskCall.lastSubmittedAt.ms = 3 * MsPerDay
    /\ riskCall.score = 55

\* C2: the score calculateRiskScore returns is an integer from 0 to 100,
\* whatever the amount and the description, and whether the last submission
\* is absent, in the past or in the future.
C2_ScoreRange == riskCall.made => riskCall.score \in 0..100

\* a call whose last submission lies in the future of the clock
C2_Witness ==
    /\ riskCall.made
    /\ ~riskCall.threw
    /\ riskCall.lastSubmittedAt # Undefined
    /\ riskCall.clock < riskCall.lastSubmittedAt.ms
    /\ riskCall.score \in 0..100

\* The inputs that differ from those of the last call in one argument only.
Amounts == {b.amount : b \in ValidDrawBodies}

Descriptions == {b.description : b \in ValidDrawBodies}

Submissions == {Undefined} \cup {Timestamp(t) : t \in ClockValues}

\* C3: the score is monotonic in the risk signals: an input that differs from
\* the one of a call in one argument only, so that one more penalty condition
\* holds for it, never scores higher.
C3_Monotonic ==
    (riskCall.made /\ ~riskCall.threw) =>
        /\ \A a \in Amounts :
               (~LargeAmount(riskCall.amount) /\ LargeAmount(a)) =>
                   calculateRiskScore(a, riskCall.description,
                                      riskCall.lastSubmittedAt, riskCall.clock).score
                       <= riskCall.score
        /\ \A d \in Descriptions :
               (~ShortDescription(riskCall.description) /\ ShortDescription(d)) =>
                   calculateRiskScore(riskCall.amount, d,
                                      riskCall.lastSubmittedAt, riskCall.clock).score
                       <= riskCall.score
        /\ \A l \in Submissions :
               (/\ ~RecentSubmission(riskCall.lastSubmittedAt, riskCall.clock)
                /\ RecentSubmission(l, riskCall.clock)) =>
                   calculateRiskScore(riskCall.amount, riskCall.description,
                                      l, riskCall.clock).score
                       <= riskCall.score

\* a call without any penalty, and an input with one more condition that
\* scores strictly less
C3_Witness ==
    /\ riskCall.made
    /\ riskCall.score = 100
    /\ riskCall.lastSubmittedAt # Undefined
    /\ \E l \in Submissions :
           /\ RecentSubmission(l, riskCall.clock)
           /\ calculateRiskScore(riskCall.amount, riskCall.description,
                                 l, riskCall.clock).score = 85

\* C4: calculateRiskScore has no error outcome: every call of the handler
\* returns a score, and without a last submission the resubmission penalty is
\* skipped while the other two still apply.
C4_NoError ==
    riskCall.made =>
        /\ ~riskCall.threw
        /\ riskCall.lastSubmittedAt = Undefined =>
               riskCall.score = 100 - (IF LargeAmount(riskCall.amount) THEN 20 ELSE 0)
                                    - (IF ShortDescription(riskCall.description)
                                       THEN 10 ELSE 0)

\* a first draw of a project with a large amount and a short description: 70
C4_Witness ==
    /\ riskCall.made
    /\ ~riskCall.threw
    /\ riskCall.lastSubmittedAt = Undefined
    /\ riskCall.score = 70

(***************************************************************************)
(* JavaScript Dates.  A Date is an instant, counted here in hours from     *)
(* 1970-01-01T00:00Z (every instant of the model falls on a whole hour).   *)
(* Its UTC fields are those of the proleptic Gregorian calendar; its local *)
(* fields are those of the instant `off` hours earlier, for a server whose *)
(* time zone lies `off` hours west of UTC.                                 *)
(***************************************************************************)
HoursPerDay == 24

\* The day number (days from 1970-01-01) of the civil date y-m-d, m in 1..12.
DaysFromShifted(y, mp, d) ==
    (y \div 400) * 146097
        + (y % 400) * 365 + ((y % 400) \div 4) - ((y % 400) \div 100)
        + ((153 * mp + 2) \div 5) + d - 1
        - 719468

DaysFromCivil(y, m, d) ==
    DaysFromShifted(IF m <= 2 THEN y - 1 ELSE y, IF m > 2 THEN m - 3 ELSE m + 9, d)

\* The civil date [y, m, d] of the day number z.
CivilOfMp(y, doy, mp) ==
    [y |-> IF mp < 10 THEN y ELSE y + 1,
     m |-> IF mp < 10 THEN mp + 3 ELSE mp - 9,
     d |-> doy - ((153 * mp + 2) \div 5) + 1]

CivilOfDoy(y, doy) == CivilOfMp(y, doy, (5 * doy + 2) \div 153)

CivilOfYoe(era, doe, yoe) ==
    CivilOfDoy(yoe + era * 400, doe - (365 * yoe + (yoe \div 4) - (yoe \div 100)))

CivilOfDoe(era, doe) ==
    CivilOfYoe(era, doe,
               (doe - (doe \div 1460) + (doe \div 36524) - (doe \div 146096)) \div 365)

CivilFromDays(z) == CivilOfDoe((z + 719468) \div 146097, (z + 719468) % 146097)

\* The text 'YYYY-MM-DD' of a date.
JDate(y, m, d) == [t |-> "string", len |-> 10, y |-> y, m |-> m, d |-> d]

\* new Date('YYYY-MM-DD'): midnight UTC of that day
NewDate(text) == DaysFromCivil(text.y, text.m, text.d) * HoursPerDay

\* date.toISOString().slice(0, 10): the UTC day of the instant
ToISODate(date) ==
    JDate(CivilFromDays(date \div HoursPerDay).y,
          CivilFromDays(date \div HoursPerDay).m,
          CivilFromDays(date \div HoursPerDay).d)

\* The local fields of the instant `date`.
LocalDate(date, off) == CivilFromDays((date - off) \div HoursPerDay)

\* date.getMonth(): 0 for January
GetMonth(date, off) == LocalDate(date, off).m - 1

\* date.setMonth(month): the local month becomes `month` (12 is January of the
\* next year); the local day of the month and time of day stay, and a day past
\* the end of that month runs on into the next one.
SetMonth(date, month, off) ==
    (DaysFromCivil(LocalDate(date, off).y + (month \div 12), (month % 12) + 1, 1)
         + LocalDate(date, off).d - 1) * HoursPerDay
        + ((date - off) % HoursPerDay) + off

(***************************************************************************)
(* The loans table and POST /api/loans.                                    *)
(***************************************************************************)
\* Rows of loans.
MaxLoans == 1

\* The longest term of a loan, in months.
MaxTerm == 3

\* Rows of amortization_schedules from which on no further schedule is generated.
MaxScheduleRows == 1

\* !borrower_name || !amount || !interest_rate || !term_months || !start_date || !project_id
MissingLoanFields(body) ==
    \/ Falsy(body.amount)
    \/ Falsy(body.interest_rate)
    \/ Falsy(body.term_months)
    \/ Falsy(body.start_date)
    \/ ~body.others

CreateLoan(body) ==
    /\ Len(loans) < MaxLoans
    /\ UNCHANGED <<schedules, schedResp, schedCall>>
    /\ IF MissingLoanFields(body)
       THEN /\ loanResp' = [status |-> 400]
            /\ UNCHANGED loans
       ELSE \E error \in BOOLEAN :
                IF error
                THEN /\ loanResp' = [status |-> 500]
                     /\ UNCHANGED loans
                ELSE /\ loanResp' = [status |-> 201]
                     /\ loans' = Append(loans,
                                        [amount        |-> body.amount,
                                         interest_rate |-> body.interest_rate,
                                         term_months   |-> body.term_months,
                                         start_date    |-> body.start_date])

LoanBody(amount, interest_rate, term_months, start_date) ==
    [amount |-> amount, interest_rate |-> interest_rate,
     term_months |-> term_months, start_date |-> start_date, others |-> TRUE]

\* A start on the 31st, and one whose schedule crosses the end of a year.
StartDates == {JDate(2024, 1, 31), JDate(2023, 12, 15)}

\* Request bodies with every field present: 120000 at 6 % for 1..MaxTerm
\* months from either start date; the same at the rate "0"; with the terms
\* "0" and -1; and with the amounts "0" and -1200.
ValidLoanBodies ==
    {LoanBody(JNum(Num(120000)), JNum(Num(6)), JNum(Num(k)), d) :
         k \in 1..MaxTerm, d \in StartDates}
    \cup {LoanBody(JNum(Num(120000)), JNumStr(1, Num(0)), JNum(Num(k)), JDate(2024, 1, 31)) :
              k \in 1..MaxTerm}
    \cup {LoanBody(JNum(Num(120000)), JNum(Num(6)), JNumStr(1, Num(0)), JDate(2024, 1, 31)),
          LoanBody(JNum(Num(120000)), JNum(Num(6)), JNum(Num(0 - 1)), JDate(2024, 1, 31)),
          LoanBody(JNumStr(1, Num(0)), JNum(Num(6)), JNum(Num(1)), JDate(2024, 1, 31)),
          LoanBody(JNum(Num(0 - 1200)), JNum(Num(6)), JNum(Num(1)), JDate(2024, 1, 31))}

\* Bodies with one field missing or zero.
InvalidLoanBodies ==
    {LoanBody(JNum(Num(0)), JNum(Num(6)), JNum(Num(1)), JDate(2024, 1, 31)),
     LoanBody(JNum(Num(120000)), JNum(Num(0)), JNum(Num(1)), JDate(2024, 1, 31)),
     LoanBody(JNum(Num(120000)), JNum(Num(6)), JNum(Num(0)), JDate(2024, 1, 31)),
     LoanBody(JNum(Num(120000)), JNum(Num(6)), JNum(Num(1)), Undefined),
     [LoanBody(JNum(Num(120000)), JNum(Num(6)), JNum(Num(1)), JDate(2024, 1, 31))
          EXCEPT !.others = FALSE]}

LoanBodies == ValidLoanBodies \cup InvalidLoanBodies

CreateLoanRequest ==
    /\ \E body \in LoanBodies : CreateLoan(body)
    /\ UNCHANGED <<riskVars, payVars, askVars>>

(***************************************************************************)
(* POST /api/loans/:loanId/generate-schedule.                              *)
(***************************************************************************)
\* parseFloat(v) of a Number or of the text of one
ParseFloat(v) == IF v.t = "undefined" THEN NaN ELSE v.v

\* parseInt(v, 10) of a Number or of the text of one
ParseInt(v) == IntOf(v.v)

\* parseFloat(loan.interest_rate) / 100 / 12
MonthlyRate(loan) == NumDiv(NumDiv(ParseFloat(loan.interest_rate), Num(100)), Num(12))

\* P * r / (1 - Math.pow(1 + r, -n))
LevelPayment(P, r, n, mode) ==
    NumDiv(NumMul(P, r), NumSub(Num(1), MathPow(NumAdd(Num(1), r), 0 - n, mode)))

\* A variant of the loop condition that stops one period early.
LoopContinuesBelow(i, n) == i < n

\* for (...; i <= n; ...)
LoopContinues(i, n) == i <= n

\* The rows that the loop pushes from period i on, with the balance and the
\* date it has reached.
RECURSIVE ScheduleLoop(_, _, _, _, _, _, _, _)
PushEntry(loanId, r, A, n, i, date, off, interestDue, principalDue, balance) ==
    <<[loan_id       |-> loanId,
       due_date      |-> ToISODate(date),
       principal_due |-> principalDue,
       interest_due  |-> interestDue,
       balance_after |-> balance]>>
        \o ScheduleLoop(loanId, r, A, n, i + 1, balance,
                        SetMonth(date, GetMonth(date, off) + 1, off), off)

\* balance -= principalDue
ReduceBalance(loanId, r, A, n, i, balance, date, off, interestDue, principalDue) ==
    PushEntry(loanId, r, A, n, i, date, off, interestDue, principalDue,
              NumSub(balance, principalDue))

\* principalDue = A - interestDue
SplitPayment(loanId, r, A, n, i, balance, date, off, interestDue) ==
    ReduceBalance(loanId, r, A, n, i, balance, date, off, interestDue,
                  NumSub(A, interestDue))

\* interestDue = balance * r
ScheduleLoop(loanId, r, A, n, i, balance, date, off) ==
    IF LoopContinues(i, n)
    THEN SplitPayment(loanId, r, A, n, i, balance, date, off, NumMul(balance, r))
    ELSE <<>>

\* The insert of the rows and the response.
InsertSchedule(loanId, loan, P, r, n, A, off, inserts) ==
    \E schedErr \in BOOLEAN :
        /\ schedCall' = [made |-> TRUE, loanId |-> loanId, loan |-> loan,
                         P |-> P, r |-> r, n |-> n, A |-> A, off |-> off,
                         inserts |-> inserts, persisted |-> ~schedErr]
        /\ IF schedErr
           THEN /\ schedResp' = [status |-> 500]
                /\ UNCHANGED schedules
           ELSE /\ schedResp' = [status |-> 200]
                /\ schedules' = schedules \o inserts

WithPayment(loanId, loan, P, r, n, A, off) ==
    InsertSchedule(loanId, loan, P, r, n, A, off,
                   ScheduleLoop(loanId, r, A, n, 1, P, NewDate(loan.start_date), off))

WithTerms(loanId, loan, P, r, n, mode, off) ==
    WithPayment(loanId, loan, P, r, n, LevelPayment(P, r, n, mode), off)

\* The request for the loan loanId, on a server `off` hours west of UTC whose
\* Math.pow rounds as `mode` says.
GenerateSchedule(loanId, mode, off) ==
    /\ Len(schedules) < MaxScheduleRows
    /\ UNCHANGED <<loans, loanResp>>
    /\ \E loanErr \in BOOLEAN :
           IF loanErr \/ loanId \notin 1..Len(loans)
           THEN /\ schedResp' = [status |-> 404]
                /\ schedCall' = NoCall
                /\ UNCHANGED schedules
           ELSE WithTerms(loanId, loans[loanId], ParseFloat(loans[loanId].amount),
                          MonthlyRate(loans[loanId]),
                          ParseInt(loans[loanId].term_months), mode, off)

\* The ids a request may name: those of the table's rows and one more.
LoanIds == 1..(MaxLoans + 1)

\* Math.pow is implementation-approximated: either neighbour of the exact power.
PowModes == {"down", "up"}

\* Servers on UTC and five hours west of it (daylight saving is left out).
TzOffsets == {0, 5}

GenerateScheduleRequest ==
    /\ \E loanId \in LoanIds, mode \in PowModes, off \in TzOffsets :
           GenerateSchedule(loanId, mode, off)
    /\ UNCHANGED <<riskVars, payVars, askVars>>

InitSchedule ==
    /\ loans = <<>>
    /\ loanResp = NoResponse
    /\ schedules = <<>>
    /\ schedResp = NoResponse
    /\ schedCall = NoCall

(***************************************************************************)
(* The amortization schedule, as the specification states it: the terms of *)
(* a request, and the calendar by which due dates advance.                 *)
(***************************************************************************)
\* principal > 0, annualRatePercent >= 0 and termMonths > 0 in the last request
ValidTerms ==
    /\ schedCall.made
    /\ schedCall.P.k = "fin" /\ ~schedCall.P.neg
    /\ ParseFloat(schedCall.loan.interest_rate).k \in {"zero", "fin"}
    /\ ~IsNegative(ParseFloat(schedCall.loan.interest_rate))
    /\ schedCall.n > 0

IsLeapYear(y) == y % 4 = 0 /\ (y % 100 # 0 \/ y % 400 = 0)

DaysInMonth(y, m) ==
    IF m = 2 THEN (IF IsLeapYear(y) THEN 29 ELSE 28)
    ELSE IF m \in {4, 6, 9, 11} THEN 30 ELSE 31

\* The months from year 0 to the month of a date.
MonthIndex(date) == date.y * 12 + date.m - 1

\* The day `day` of the month with index idx, or the last day of that month.
ClampedDate(idx, day) ==
    JDate(idx \div 12, (idx % 12) + 1, Min(day, DaysInMonth(idx \div 12, (idx % 12) + 1)))

\* The date k whole calendar months after `date`.
AddMonths(date, k) == ClampedDate(MonthIndex(date) + k, date.d)

DateBefore(a, b) ==
    \/ a.y < b.y
    \/ a.y = b.y /\ a.m < b.m
    \/ a.y = b.y /\ a.m = b.m /\ a.d < b.d

\* The rows that the last request added to the table.
PersistedRows ==
    SubSeq(schedules, Len(schedules) - Len(schedCall.inserts) + 1, Len(schedules))

\* C5: for valid terms the schedule is an ordered sequence of exactly
\* termMonths entries, one per period 1..termMonths: as many rows as months,
\* all of the loan, with increasing due dates, and they are the rows that a
\* successful request persists.
C5_EntryCount ==
    ValidTerms =>
        /\ Len(schedCall.inserts) = schedCall.n
        /\ \A i \in 1..Len(schedCall.inserts) :
               schedCall.inserts[i].loan_id = schedCall.loanId
        /\ \A i \in 1..(Len(schedCall.inserts) - 1) :
               DateBefore(schedCall.inserts[i].due_date,
                          schedCall.inserts[i + 1].due_date)
        /\ schedCall.persisted =>
               /\ schedResp.status = 200
               /\ Len(schedules) >= schedCall.n
               /\ PersistedRows = schedCall.inserts

\* a persisted schedule of MaxTerm months
C5_Witness ==
    /\ ValidTerms
    /\ schedCall.n = MaxTerm
    /\ Len(schedCall.inserts) = MaxTerm
    /\ schedCall.persisted
    /\ Len(schedules) = MaxTerm

\* C6: for valid terms the final principalDue is adjusted so that the
\* balanceAfter of the last entry is exactly 0.
C6_FinalBalanceZero ==
    (ValidTerms /\ Len(schedCall.inserts) = schedCall.n) =>
        NumEq(schedCall.inserts[schedCall.n].balance_after, Zero(FALSE))

\* C7: the entry of period i is due i whole calendar months after the start
\* date: the first one month after it, the last termMonths months after it.
C7_DueDateByIndex ==
    ValidTerms =>
        \A i \in 1..Len(schedCall.inserts) :
            schedCall.inserts[i].due_date = AddMonths(schedCall.loan.start_date, i)

\* C8: consecutive entries are due exactly one calendar month apart, on the
\* start date's day of the month or, where the month lacks it, on the month's
\* last day: no month is skipped and no due date spills into the next month.
C8_MonthlySteps ==
    ValidTerms =>
        \A i \in 1..(Len(schedCall.inserts) - 1) :
            schedCall.inserts[i + 1].due_date =
                ClampedDate(MonthIndex(schedCall.inserts[i].due_date) + 1,
                            schedCall.loan.start_date.d)

\* C9: at a zero interest rate (and otherwise valid terms) every entry has
\* principalDue = principal / termMonths and interestDue = 0.
C9_ZeroRate ==
    (ValidTerms /\ schedCall.r.k = "zero") =>
        \A i \in 1..Len(schedCall.inserts) :
            /\ NumEq(schedCall.inserts[i].principal_due,
                     NumDiv(schedCall.P, Num(schedCall.n)))
            /\ NumEq(schedCall.inserts[i].interest_due, Zero(FALSE))

\* C10: with termMonths <= 0, principal <= 0 or a level payment that is not
\* finite the request fails with InvalidTerms: it produces no entries and
\* persists none.
C10_InvalidTerms ==
    (/\ schedCall.made
     /\ \/ schedCall.n <= 0
        \/ schedCall.P.k = "zero"
        \/ IsNegative(schedCall.P)
        \/ ~IsFinite(schedCall.A)) =>
        /\ schedResp.status # 200
        /\ schedCall.inserts = <<>>
        /\ ~schedCall.persisted

(***************************************************************************)
(* The payments table and POST /api/loans/:loanId/payments.  A row holds   *)
(* the Numbers the handler computed; a NaN is stored as null and read back *)
(* by parseFloat as NaN.                                                    *)
(***************************************************************************)
\* Rows of payments.
MaxPayments == 2

\* The payment_date values of a body, by their order.
PaymentDates == {1, 2}

\* No row: the data of .maybeSingle() when the loan has no payment yet.
NoPayment == [loan_id |-> 0]

\* The indexes of the rows of a loan.
PaymentsOf(loanId) == {i \in 1..Len(payments) : payments[i].loan_id = loanId}

\* .order('payment_date', { ascending: false }).limit(1): a row of the latest
\* date; which one of several rows of the same date is for the database to say.
LastPayments(loanId) ==
    IF PaymentsOf(loanId) = {} THEN {NoPayment}
    ELSE {payments[i] : i \in {j \in PaymentsOf(loanId) :
                                  \A k \in PaymentsOf(loanId) :
                                      payments[k].payment_date <= payments[j].payment_date}}

\* lastPayment ? parseFloat(lastPayment.remaining_balance) : null
PrevBalance(lastPayment) ==
    IF lastPayment = NoPayment THEN [null |-> TRUE, v |-> NaN]
    ELSE [null |-> FALSE, v |-> lastPayment.remaining_balance]

\* prevBalance !== null ? prevBalance : parseFloat(loanData.amount)
PaymentBalance(prevBalance, loanData) ==
    IF ~prevBalance.null THEN prevBalance.v ELSE ParseFloat(loanData.amount)

\* parseFloat(loanData.interest_rate) / 100 / 12
PaymentRate(loanData) ==
    NumDiv(NumDiv(ParseFloat(loanData.interest_rate), Num(100)), Num(12))

\* A variant of the interest that charges the rate of a year.
PaymentInterestOfYear(balance, r2) == NumMul(balance, NumMul(r2, Num(12)))

\* balance * r2
PaymentInterest(balance, r2) == NumMul(balance, r2)

\* Math.max(0, x)
MathMax0(x) ==
    IF IsNaN(x) THEN NaN
    ELSE IF NumGt(x, Zero(FALSE)) THEN x
    ELSE Zero(FALSE)

\* A variant of the principal without its floor of 0.
PaymentPrincipalUnfloored(amount, interest) == NumSub(ToNumber(amount), interest)

\* Math.max(0, amount - interest)
PaymentPrincipal(amount, interest) == MathMax0(NumSub(ToNumber(amount), interest))

\* balance - principal
PaymentRemaining(balance, principal) == NumSub(balance, principal)

\* The insert of the row and the response.
InsertPayment(loanId, body, balance, r2, interest, principal, remaining) ==
    \E payErr \in BOOLEAN :
        /\ payCall' = [made |-> TRUE, loanId |-> loanId, amount |-> body.amount,
                       balance |-> balance, r2 |-> r2, interest |-> interest,
                       principal |-> principal, remaining |-> remaining,
                       recorded |-> ~payErr]
        /\ IF payErr
           THEN /\ payResp' = [status |-> 500]
                /\ UNCHANGED payments
           ELSE /\ payResp' = [status |-> 201]
                /\ payments' = Append(payments,
                                      [loan_id           |-> loanId,
                                       payment_date      |-> body.payment_date,
                                       amount            |-> body.amount,
                                       applied_principal |-> principal,
                                       applied_interest  |-> interest,
                                       remaining_balance |-> remaining])

WithPrincipal(loanId, body, balance, r2, interest, principal) ==
    InsertPayment(loanId, body, balance, r2, interest, principal,
                  PaymentRemaining(balance, principal))

WithInterest(loanId, body, balance, r2, interest) ==
    WithPrincipal(loanId, body, balance, r2, interest,
                  PaymentPrincipal(body.amount, interest))

WithBalance(loanId, body, balance, r2) ==
    WithInterest(loanId, body, balance, r2, PaymentInterest(balance, r2))

\* The fetch of the loan, after that of the last payment.
WithLastPayment(loanId, body, prevBalance) ==
    \E loanDataErr \in BOOLEAN :
        IF loanDataErr \/ loanId \notin 1..Len(loans)
        THEN /\ payResp' = [status |-> 404]
             /\ payCall' = NoCall
             /\ UNCHANGED payments
        ELSE WithBalance(loanId, body, PaymentBalance(prevBalance, loans[loanId]),
                         PaymentRate(loans[loanId]))

RecordPayment(loanId, body) ==
    /\ Len(payments) < MaxPayments
    /\ \E lastErr \in BOOLEAN :
           IF lastErr
           THEN /\ payResp' = [status |-> 500]
                /\ payCall' = NoCall
                /\ UNCHANGED payments
           ELSE \E lastPayment \in LastPayments(loanId) :
                    WithLastPayment(loanId, body, PrevBalance(lastPayment))

\* Payments of 50, of 5 (less than a month's interest on 1000 at 12 %), of
\* 25.7, of 5000 (more than the loan), of -100, and without an amount.
PaymentAmounts ==
    {JNum(Num(50)), JNum(Num(5)), JNum(NumDiv(Num(257), Num(10))),
     JNum(Num(5000)), JNum(Num(0 - 100)), Undefined}

PaymentBodies == [amount : PaymentAmounts, payment_date : PaymentDates]

RecordPaymentRequest ==
    /\ \E loanId \in LoanIds, body \in PaymentBodies : RecordPayment(loanId, body)
    /\ UNCHANGED <<riskVars, schedVars, askVars, pending>>

\* Payment requests in flight at once, and the rows they may record together.
MaxInFlight == 2

MaxInterleavedRows == 3

Slots == 1..MaxInFlight

\* A slot without a request.
Idle == [at |-> "idle"]

InFlight == {slot \in Slots : pending[slot] # Idle}

InitPayments ==
    /\ payments = <<>>
    /\ payResp = NoResponse
    /\ payCall = NoCall
    /\ pending = [slot \in Slots |-> Idle]

\* The row that POST /api/loans stores for a body.
StoredLoan(body) ==
    [amount |-> body.amount, interest_rate |-> body.interest_rate,
     term_months |-> body.term_months, start_date |-> body.start_date]

\* Loans on which payments are made: 1000 at 12 %, 120000 at the rate "0",
\* and one of the amount -1200.
ServicedLoanBodies ==
    {LoanBody(JNum(Num(1000)), JNum(Num(12)), JNum(Num(1)), JDate(2024, 1, 31)),
     LoanBody(JNum(Num(120000)), JNumStr(1, Num(0)), JNum(Num(1)), JDate(2024, 1, 31)),
     LoanBody(JNum(Num(0 - 1200)), JNum(Num(6)), JNum(Num(1)), JDate(2024, 1, 31))}

\* The server starts on a database that holds one of these loans already.
InitServicing ==
    /\ loans \in {<<StoredLoan(body)>> : body \in ServicedLoanBodies}
    /\ loanResp = NoResponse
    /\ schedules = <<>>
    /\ schedResp = NoResponse
    /\ schedCall = NoCall

(***************************************************************************)
(* The same handler, step by step: it runs up to each of its three awaits  *)
(* (the query of the last payment, the fetch of the loan, the insert),     *)
(* and other requests run in between.  `seen` is the number of rows the    *)
(* table held when the request read its last payment.                      *)
(***************************************************************************)
\* The query of the last payment answers: a 500, or prevBalance.
ReadLastPayment(slot, loanId, body) ==
    /\ pending[slot] = Idle
    /\ Len(payments) + Cardinality(InFlight) < MaxInterleavedRows
    /\ \E lastErr \in BOOLEAN :
           IF lastErr
           THEN /\ payResp' = [status |-> 500]
                /\ payCall' = NoCall
                /\ UNCHANGED pending
           ELSE /\ \E lastPayment \in LastPayments(loanId) :
                       pending' = [pending EXCEPT ![slot] =
                                       [at |-> "loan", loanId |-> loanId, body |-> body,
                                        prevBalance |-> PrevBalance(lastPayment),
                                        seen |-> Len(payments)]]
                /\ UNCHANGED <<payResp, payCall>>
    /\ UNCHANGED payments

\* The split of the request req, up to the call of the insert.
SplitOfPrincipal(req, balance, r2, interest, principal) ==
    [at |-> "insert", loanId |-> req.loanId, body |-> req.body, seen |-> req.seen,
     balance |-> balance, r2 |-> r2, interest |-> interest, principal |-> principal,
     remaining |-> PaymentRemaining(balance, principal)]

SplitOfInterest(req, balance, r2, interest) ==
    SplitOfPrincipal(req, balance, r2, interest,
                     PaymentPrincipal(req.body.amount, interest))

SplitOfBalance(req, balance, r2) ==
    SplitOfInterest(req, balance, r2, PaymentInterest(balance, r2))

SplitOfLoan(req, loanData) ==
    SplitOfBalance(req, PaymentBalance(req.prevBalance, loanData), PaymentRate(loanData))

\* The fetch of the loan answers: a 404, or the split and the call of the insert.
ReadLoan(slot) ==
    /\ pending[slot].at = "loan"
    /\ \E loanDataErr \in BOOLEAN :
           IF loanDataErr \/ pending[slot].loanId \notin 1..Len(loans)
           THEN /\ payResp' = [status |-> 404]
                /\ payCall' = NoCall
                /\ pending' = [pending EXCEPT ![slot] = Idle]
           ELSE /\ pending' = [pending EXCEPT ![slot] =
                                   SplitOfLoan(pending[slot], loans[pending[slot].loanId])]
                /\ UNCHANGED <<payResp, payCall>>
    /\ UNCHANGED payments

\* The insert answers: a 500, or the row and a 201.
InsertRow(slot, req) ==
    /\ req.at = "insert"
    /\ pending' = [pending EXCEPT ![slot] = Idle]
    /\ \E payErr \in BOOLEAN :
           /\ payCall' = [made |-> TRUE, loanId |-> req.loanId, amount |-> req.body.amount,
                          balance |-> req.balance, r2 |-> req.r2,
                          interest |-> req.interest, principal |-> req.principal,
                          remaining |-> req.remaining, recorded |-> ~payErr,
                          seen |-> req.seen]
           /\ IF payErr
              THEN /\ payResp' = [status |-> 500]
                   /\ UNCHANGED payments
              ELSE /\ payResp' = [status |-> 201]
                   /\ payments' = Append(payments,
                                         [loan_id           |-> req.loanId,
                                          payment_date      |-> req.body.payment_date,
                                          amount            |-> req.body.amount,
                                          applied_principal |-> req.principal,
                                          applied_interest  |-> req.interest,
                                          remaining_balance |-> req.remaining])

\* Payments of 50, with either date.
InterleavedBodies == [amount : {JNum(Num(50))}, payment_date : PaymentDates]

PaymentArrives ==
    /\ \E slot \in Slots, loanId \in LoanIds, body \in InterleavedBodies :
           ReadLastPayment(slot, loanId, body)
    /\ UNCHANGED <<riskVars, schedVars, askVars>>

LoanFetched ==
    /\ \E slot \in Slots : ReadLoan(slot)
    /\ UNCHANGED <<riskVars, schedVars, askVars>>

PaymentInserted ==
    /\ \E slot \in Slots : InsertRow(slot, pending[slot])
    /\ UNCHANGED <<riskVars, schedVars, askVars>>

(***************************************************************************)
(* The application of a payment, as the specification states it.           *)
(***************************************************************************)
\* x >= 0
NonNegative(x) == x.k # "nan" /\ ~IsNegative(x)

\* x >= y
NumGe(x, y) == x.k # "nan" /\ y.k # "nan" /\ ~NumLt(x, y)

\* The last request reached the computation of the split with a numeric amount.
SplitComputed == payCall.made /\ ~IsNaN(ToNumber(payCall.amount))

\* max(0, paymentAmount - appliedInterest)
ExpectedPrincipal(paymentAmount, appliedInterest) ==
    IF NumGt(paymentAmount, appliedInterest)
    THEN NumSub(paymentAmount, appliedInterest)
    ELSE Zero(FALSE)

\* The row of the payment that the last request recorded.
RecordedPayment == payments[Len(payments)]

\* C11: for a balance, a monthly rate and a payment that are all >= 0, the
\* applied interest is balance * rate, the applied principal is
\* max(0, payment - interest) and the remaining balance is balance - principal,
\* in the split computed and in the row recorded; a payment of 50 on a balance
\* of 1000 at the monthly rate 0.01 gives interest 10, principal 40 and a
\* remaining balance of 960.
C11_ApplyPayment ==
    (/\ SplitComputed
     /\ NonNegative(payCall.balance)
     /\ NonNegative(payCall.r2)
     /\ NonNegative(ToNumber(payCall.amount))) =>
        /\ NumEq(payCall.interest, NumMul(payCall.balance, payCall.r2))
        /\ NumEq(payCall.principal,
                 ExpectedPrincipal(ToNumber(payCall.amount),
                                   NumMul(payCall.balance, payCall.r2)))
        /\ NumEq(payCall.remaining,
                 NumSub(payCall.balance,
                        ExpectedPrincipal(ToNumber(payCall.amount),
                                          NumMul(payCall.balance, payCall.r2))))
        /\ (/\ NumEq(payCall.balance, Num(1000))
            /\ NumEq(payCall.r2, NumDiv(Num(1), Num(100)))
            /\ NumEq(ToNumber(payCall.amount), Num(50))) =>
               /\ NumEq(payCall.interest, Num(10))
               /\ NumEq(payCall.principal, Num(40))
               /\ NumEq(payCall.remaining, Num(960))
        /\ payCall.recorded =>
               /\ payResp.status = 201
               /\ RecordedPayment.applied_interest = payCall.interest
               /\ RecordedPayment.applied_principal = payCall.principal
               /\ RecordedPayment.remaining_balance = payCall.remaining

\* A payment of 50 on the balance 1000 at 12 % a year has been recorded.
C11_Witness ==
    /\ SplitComputed
    /\ payCall.recorded
    /\ NumEq(payCall.balance, Num(1000))
    /\ NumEq(payCall.r2, NumDiv(Num(1), Num(100)))
    /\ NumEq(ToNumber(payCall.amount), Num(50))
    /\ NumEq(RecordedPayment.remaining_balance, Num(960))

\* C12: for a payment and a balance that are numbers: whenever the payment is
\* at least the applied interest, the applied interest and the applied
\* principal add up to the payment; and in every case the remaining balance is
\* the outstanding balance less the applied principal.
C12_Conservation ==
    (SplitComputed /\ ~IsNaN(payCall.balance)) =>
        /\ NumGe(ToNumber(payCall.amount), payCall.interest) =>
               NumEq(NumAdd(payCall.interest, payCall.principal),
                     ToNumber(payCall.amount))
        /\ NumEq(payCall.remaining, NumSub(payCall.balance, payCall.principal))

\* C13: when the payment is less than the applied interest, no principal is
\* applied and the balance stays what it was, in the split computed and in the
\* row recorded: the shortfall is not added to the balance.
C13_InterestNotCovered ==
    (/\ SplitComputed
     /\ NumLt(ToNumber(payCall.amount), payCall.interest)) =>
        /\ payCall.principal.k = "zero"
        /\ NumEq(payCall.remaining, payCall.balance)
        /\ payCall.recorded =>
               /\ RecordedPayment.applied_principal.k = "zero"
               /\ NumEq(RecordedPayment.remaining_balance, payCall.balance)

\* A payment of 5, less than the interest of 10 on the balance 1000, has been recorded.
C13_Witness ==
    /\ SplitComputed
    /\ payCall.recorded
    /\ NumEq(ToNumber(payCall.amount), Num(5))
    /\ NumEq(payCall.interest, Num(10))
    /\ NumEq(RecordedPayment.remaining_balance, Num(1000))

\* C14: a payment with an amount < 0, or on an outstanding balance < 0, fails
\* (InvalidPayment) and no payment row is recorded.
C14_InvalidPayment ==
    (/\ payCall.made
     /\ \/ IsNegative(ToNumber(payCall.amount))
        \/ IsNegative(payCall.balance)) =>
        /\ payResp.status # 201
        /\ ~payCall.recorded

(***************************************************************************)
(* The AI functions.  What the database answers to a query is a reply      *)
(* { data, error }: data is null when there is an error.  A function       *)
(* returns a value or throws.                                               *)
(***************************************************************************)
\* Rows in the data of a reply.
MaxRows == 2

Null == [t |-> "null"]

Array(rows) == [t |-> "array", rows |-> rows]

\* {}
EmptyObject == [t |-> "object", fields |-> <<>>]

Failed == [error |-> TRUE, data |-> Null]

Answered(rows) == [error |-> FALSE, data |-> Array(rows)]

FnReturned(value) == [threw |-> FALSE, value |-> value]

\* A TypeError, which leaves no value.
FnThrew == [threw |-> TRUE, value |-> Null]

\* get_loans(): data, or [] on an error
get_loans(reply) ==
    IF reply.error THEN FnReturned(Array(<<>>)) ELSE FnReturned(reply.data)

\* get_draws(): data, or [] on an error
get_draws(reply) ==
    IF reply.error THEN FnReturned(Array(<<>>)) ELSE FnReturned(reply.data)

\* A variant of the filter that keeps every row.
AnyDraws(drawData) == drawData

\* drawData.filter(d => d.status === 'approved')
ApprovedDraws(drawData) == SelectSeq(drawData, LAMBDA d : d.status = "approved")

\* .reduce((acc, d) => acc + parseFloat(d.amount), acc) over rows
RECURSIVE SumAmounts(_, _)
SumAmounts(rows, acc) ==
    IF rows = <<>> THEN acc
    ELSE SumAmounts(Tail(rows), NumAdd(acc, ParseFloat(Head(rows).amount)))

\* loanData && loanData.status === 'active' ? loanData.amount - sumDrawn : 0
OutstandingReserve(loanData, sumDrawn) ==
    IF loanData # Null /\ loanData.status = "active"
    THEN NumSub(ToNumber(loanData.amount), sumDrawn)
    ELSE Zero(FALSE)

ProjectStatus(totalDraws, approvedDraws, sumDrawn, outstandingReserve) ==
    [t |-> "object", fields |-> <<"totalDraws", "approvedDraws", "sumDrawn", "outstandingReserve">>,
     totalDraws |-> totalDraws, approvedDraws |-> approvedDraws,
     sumDrawn |-> sumDrawn, outstandingReserve |-> outstandingReserve]

StatusOfSum(drawData, loanData, sumDrawn) ==
    ProjectStatus(Len(drawData), Len(ApprovedDraws(drawData)), sumDrawn,
                  OutstandingReserve(loanData, sumDrawn))

\* get_project_status({ projectId }), given the replies to its two queries
get_project_status(drawReply, loanReply) ==
    IF drawReply.error THEN FnReturned(EmptyObject)
    ELSE FnReturned(StatusOfSum(drawReply.data.rows, loanReply.data,
                                SumAmounts(ApprovedDraws(drawReply.data.rows), Zero(FALSE))))

\* get_lien_status({ projectId }): data, or [] on an error
get_lien_status(reply) ==
    IF reply.error THEN FnReturned(Array(<<>>)) ELSE FnReturned(reply.data)

\* .reduce((sum, d) => sum + parseFloat(d.risk_score), sum) over rows
RECURSIVE SumRiskScores(_, _)
SumRiskScores(rows, sum) ==
    IF rows = <<>> THEN sum
    ELSE SumRiskScores(Tail(rows), NumAdd(sum, ParseFloat(Head(rows).risk_score)))

\* A variant of the average without the case of no rows.
AverageRiskOfAny(draws) == NumDiv(SumRiskScores(draws, Zero(FALSE)), Num(Len(draws)))

\* draws.length ? draws.reduce(...) / draws.length : 0
AverageRisk(draws) ==
    IF Len(draws) # 0
    THEN NumDiv(SumRiskScores(draws, Zero(FALSE)), Num(Len(draws)))
    ELSE Zero(FALSE)

\* A variant of the filter with .gte: the rows of the last 7 days.
RecentInspections(inspections) == SelectSeq(inspections, LAMBDA age : age <= 7)

\* .lte('submitted_at', sevenDaysAgo): the rows submitted at least 7 days
\* (in days: 7 * 24 * 60 * 60 * 1000 ms) before now; a row is its age in days.
OverdueInspections(inspections) == SelectSeq(inspections, LAMBDA age : age >= 7)

ProjectRisk(averageRisk, overdueInspections) ==
    [t |-> "object", fields |-> <<"averageRisk", "overdueInspections">>,
     averageRisk |-> averageRisk, overdueInspections |-> overdueInspections]

\* calculate_project_risk({ projectId }), given the reply to the query of the
\* draws and the inspections table (or the failure of its query).  After an
\* error data is null, which the default [] does not replace: reading .length
\* of it throws.
calculate_project_risk(drawReply, inspections) ==
    IF drawReply.error THEN FnThrew
    ELSE IF inspections.error THEN FnThrew
    ELSE FnReturned(ProjectRisk(AverageRisk(drawReply.data.rows),
                                Len(OverdueInspections(inspections.data.rows))))

\* The names of aiFunctions.
CatalogNames ==
    {"get_loans", "get_draws", "get_project_status", "get_lien_status",
     "calculate_project_risk"}

\* The functions that require a projectId.
ProjectFunctions == {"get_project_status", "get_lien_status", "calculate_project_risk"}

\* Replies of the loans table to get_loans: rows of id, amount and status,
\* latest first.
LoanRows ==
    {<<>>,
     <<[id |-> 2, amount |-> JNum(Num(120000)), status |-> "active"],
       [id |-> 1, amount |-> JNumStr(4, Num(1000)), status |-> "closed"]>>}

LoanReplies == {Failed} \cup {Answered(rows) : rows \in LoanRows}

\* Replies of the draw_requests table to get_draws and of lien_waivers to
\* get_lien_status.
DrawListReplies ==
    {Failed, Answered(<<>>),
     Answered(<<[id |-> 1, project |-> "p1", amount |-> JNum(Num(150000)),
                 status |-> "submitted"]>>)}

LienReplies ==
    {Failed, Answered(<<>>),
     Answered(<<[id |-> 1, waiver_type |-> "final", verification_passed |-> TRUE]>>)}

\* Rows of a project in draw_requests: amounts as a Number and as the text of
\* one (100000.5), approved or not.
ProjectDrawRows ==
    [amount : {JNum(Num(100000)), JNumStr(8, NumFrac(200001, 1))},
     status : {"approved", "submitted"}]

RowLists(rows) == UNION {[1..n -> rows] : n \in 0..MaxRows}

ProjectDrawReplies == {Failed} \cup {Answered(rows) : rows \in RowLists(ProjectDrawRows)}

\* .single() of the project's loan: one row, or an error (no row, or several).
ProjectLoanReplies ==
    {Failed,
     [error |-> FALSE, data |-> [amount |-> JNum(Num(500000)), status |-> "active"]],
     [error |-> FALSE, data |-> [amount |-> JNumStr(6, Num(500000)), status |-> "active"]],
     [error |-> FALSE, data |-> [amount |-> JNum(Num(500000)), status |-> "closed"]]}

\* Rows of risk scores, and inspections 1, 7 and 8 days old.
RiskRows == [risk_score : {JNum(Num(50)), JNum(Num(85))}]

RiskReplies == {Failed} \cup {Answered(rows) : rows \in RowLists(RiskRows)}

InspectionReplies == {Failed} \cup {Answered(rows) : rows \in {<<>>, <<1>>, <<7>>, <<1, 7, 8>>}}

(***************************************************************************)
(* POST /api/ask: the request waits for the model, and goes on when the    *)
(* model's decision (the message) arrives.  A message has a function_call  *)
(* of a name and an argument text, or none (undefined or null).            *)
(***************************************************************************)
FunctionCall(name, arguments) == [t |-> "object", name |-> name, arguments |-> arguments]

\* Argument texts: the empty one, the text of an object with or without a
\* projectId, the text null, and one that is no JSON.
EmptyText == [t |-> "empty"]

ObjectText(projectId) == [t |-> "object", projectId |-> projectId]

NullText == [t |-> "null"]

InvalidText == [t |-> "invalid"]

\* A variant of the test that takes everything but undefined for a call.
HasFunctionCallDefined(msg) == msg.function_call.t # "undefined"

\* if (msg.function_call)
HasFunctionCall(msg) == msg.function_call.t = "object"

\* JSON.parse(msg.function_call.arguments || '{}'): the value, or a SyntaxError
JSONParse(arguments) ==
    IF arguments.t = "invalid" THEN FnThrew
    ELSE IF arguments.t = "empty" THEN FnReturned(ObjectText(Undefined))
    ELSE FnReturned(arguments)

\* A variant of the switch that knows get_loans and takes the rest for get_draws.
SwitchCaseOfTwo(fnName) == IF fnName = "get_loans" THEN "get_loans" ELSE "get_draws"

\* switch (fnName): the case label taken, or default
SwitchCase(fnName) == IF fnName \in CatalogNames THEN fnName ELSE "default"

\* The handler throws outside any try: the request gets no response.
Reject(msg) ==
    /\ askState' = "Rejected"
    /\ askResp' = NoResponse
    /\ askCall' = [made |-> TRUE, msg |-> msg, modelCalls |-> 1, invoked |-> <<>>,
                   outcome |-> FnThrew, reply |-> <<>>]

\* res.json({ assistant: msg })
ReplyDirectly(msg) ==
    /\ askState' = "DirectReply"
    /\ askResp' = [status |-> 200, assistant |-> msg, hasFunctionResult |-> FALSE]
    /\ askCall' = [made |-> TRUE, msg |-> msg, modelCalls |-> 1, invoked |-> <<>>,
                   outcome |-> FnReturned(Null), reply |-> <<>>]

\* The end of the try: result is the value of the function, or {} after a
\* throw; then res.json({ assistant: msg, functionResult: result }).
Respond(msg, invoked, outcome, reply) ==
    /\ askState' = "Dispatched"
    /\ askResp' = [status |-> 200, assistant |-> msg, hasFunctionResult |-> TRUE,
                   functionResult |-> IF outcome.threw THEN EmptyObject ELSE outcome.value]
    /\ askCall' = [made |-> TRUE, msg |-> msg, modelCalls |-> 1, invoked |-> invoked,
                   outcome |-> outcome, reply |-> reply]

Invocation(op, projectId) == [op |-> op, projectId |-> projectId]

\* The cases of a function of a project: args.projectId throws for the args null.
ProjectCase(msg, label, args) ==
    IF args.t = "null" THEN Respond(msg, <<>>, FnThrew, <<>>)
    ELSE IF label = "get_project_status"
    THEN \E drawReply \in ProjectDrawReplies, loanReply \in ProjectLoanReplies :
             Respond(msg, <<Invocation(label, args.projectId)>>,
                     get_project_status(drawReply, loanReply), <<drawReply, loanReply>>)
    ELSE IF label = "get_lien_status"
    THEN \E reply \in LienReplies :
             Respond(msg, <<Invocation(label, args.projectId)>>,
                     get_lien_status(reply), <<reply>>)
    ELSE \E drawReply \in RiskReplies, inspections \in InspectionReplies :
             Respond(msg, <<Invocation(label, args.projectId)>>,
                     calculate_project_risk(drawReply, inspections),
                     <<drawReply, inspections>>)

\* The switch, with the case label it takes.
Dispatch(msg, label, args) ==
    IF label = "get_loans"
    THEN \E reply \in LoanReplies :
             Respond(msg, <<Invocation(label, Undefined)>>, get_loans(reply), <<reply>>)
    ELSE IF label = "get_draws"
    THEN \E reply \in DrawListReplies :
             Respond(msg, <<Invocation(label, Undefined)>>, get_draws(reply), <<reply>>)
    ELSE IF label \in ProjectFunctions
    THEN ProjectCase(msg, label, args)
    ELSE Respond(msg, <<>>, FnReturned(EmptyObject), <<>>)

WithArguments(msg, parsed) ==
    IF parsed.threw THEN Reject(msg)
    ELSE Dispatch(msg, SwitchCase(msg.function_call.name), parsed.value)

\* The handler from the message on; reading .name of a null function_call throws.
HandleDecision(msg) ==
    IF ~HasFunctionCall(msg) THEN ReplyDirectly(msg)
    ELSE IF msg.function_call.t # "object" THEN Reject(msg)
    ELSE WithArguments(msg, JSONParse(msg.function_call.arguments))

\* The names a model may give: those of the catalog and another.
FunctionNames == CatalogNames \cup {"get_weather"}

ArgumentTexts ==
    {EmptyText, ObjectText(Undefined), ObjectText(JNum(Num(7))), ObjectText(JStr(2)),
     NullText, InvalidText}

Messages ==
    {[content |-> "text", function_call |-> Undefined],
     [content |-> "text", function_call |-> Null]}
    \cup {[content |-> "null", function_call |-> FunctionCall(name, arguments)] :
              name \in FunctionNames, arguments \in ArgumentTexts}

\* The request arrives: it is refused without a question or an API key, and
\* waits for the model otherwise.
AskQuestion(question, apiKey) ==
    /\ askState # "AwaitingDecision"
    /\ IF ~question
       THEN /\ askState' = "Refused"
            /\ askResp' = [status |-> 400]
            /\ askCall' = NoCall
       ELSE IF ~apiKey
       THEN /\ askState' = "Refused"
            /\ askResp' = [status |-> 500]
            /\ askCall' = NoCall
       ELSE /\ askState' = "AwaitingDecision"
            /\ askResp' = NoResponse
            /\ askCall' = NoCall

\* The model answers with a message, or the call of it fails.
ReceiveDecision ==
    /\ askState = "AwaitingDecision"
    /\ \E openaiError \in BOOLEAN :
           IF openaiError
           THEN /\ askState' = "Failed"
                /\ askResp' = [status |-> 500]
                /\ askCall' = NoCall
           ELSE \E msg \in Messages : HandleDecision(msg)

AskRequest ==
    /\ \E question \in BOOLEAN, apiKey \in BOOLEAN : AskQuestion(question, apiKey)
    /\ UNCHANGED <<riskVars, schedVars, payVars>>

ModelDecision ==
    /\ ReceiveDecision
    /\ UNCHANGED <<riskVars, schedVars, payVars>>

InitAssistant ==
    /\ askState = "Idle"
    /\ askResp = NoResponse
    /\ askCall = NoCall

(***************************************************************************)
(* The dispatch of the model's decision, as the specification states it.   *)
(***************************************************************************)
\* The model has returned a decision in the last request,
Decided == askCall.made

\* and the decision names a function.
NamesFunction == askCall.made /\ askCall.msg.function_call.t = "object"

\* v is a Number that is an integer.
IsInteger(v) ==
    /\ v.t = "number"
    /\ \/ v.v.k = "zero"
       \/ v.v.k = "fin" /\ v.v.e >= 0

\* The argument text gives what the function's schema declares: an object,
\* with an integer projectId for the functions that require one.
Conformant(name, arguments) ==
    IF name \in ProjectFunctions
    THEN arguments.t = "object" /\ IsInteger(arguments.projectId)
    ELSE arguments.t \in {"empty", "object"}

\* C15: when the decision carries no function name, the request ends in
\* DirectReply: the response is the unchanged message of the model, without a
\* function result, and no query operation has been invoked.
C15_DirectReply ==
    (Decided /\ askCall.msg.function_call.t # "object") =>
        /\ askState = "DirectReply"
        /\ askResp = [status |-> 200, assistant |-> askCall.msg,
                      hasFunctionResult |-> FALSE]
        /\ askCall.invoked = <<>>

\* The model has answered in words and the request has ended.
C15_Witness ==
    /\ Decided
    /\ askCall.msg.function_call.t = "undefined"
    /\ askCall.msg.content = "text"
    /\ askResp.status = 200

\* C16: a function name that is not in the catalog gets UnknownFunction or
\* the empty-result fallback, and none of the query operations is invoked.
C16_UnknownFunction ==
    (NamesFunction /\ askCall.msg.function_call.name \notin CatalogNames) =>
        /\ askCall.invoked = <<>>
        /\ askState = "Dispatched"
        /\ askResp.status = 200
        /\ askResp.hasFunctionResult
        /\ askResp.functionResult = EmptyObject

\* C17: when the projectId that get_project_status, get_lien_status and
\* calculate_project_risk require is missing or is not an integer, the
\* dispatch fails (InvalidArguments) before anything is invoked: the query
\* operation is not invoked.
C17_InvalidArguments ==
    (/\ NamesFunction
     /\ askCall.msg.function_call.name \in ProjectFunctions
     /\ askCall.msg.function_call.arguments.t # "invalid"
     /\ ~Conformant(askCall.msg.function_call.name,
                    askCall.msg.function_call.arguments)) =>
        askCall.invoked = <<>>

\* C18: for each name of the catalog and arguments that conform to its schema,
\* exactly the one query operation of that name is invoked (with the projectId
\* given), and the value it returns is the function result of the response;
\* get_loans gives the rows of the loans query as they are.
C18_Dispatch ==
    (/\ NamesFunction
     /\ askCall.msg.function_call.name \in CatalogNames
     /\ Conformant(askCall.msg.function_call.name,
                   askCall.msg.function_call.arguments)) =>
        /\ askState = "Dispatched"
        /\ Len(askCall.invoked) = 1
        /\ askCall.invoked[1].op = askCall.msg.function_call.name
        /\ askCall.msg.function_call.name \in ProjectFunctions =>
               askCall.invoked[1].projectId =
                   askCall.msg.function_call.arguments.projectId
        /\ askResp.status = 200
        /\ askResp.assistant = askCall.msg
        /\ askResp.hasFunctionResult
        /\ ~askCall.outcome.threw => askResp.functionResult = askCall.outcome.value
        /\ (/\ askCall.msg.function_call.name = "get_loans"
            /\ ~askCall.reply[1].error) =>
               askResp.functionResult = askCall.reply[1].data

\* get_loans has returned two rows of the loans table.
C18_Witness ==
    /\ NamesFunction
    /\ askCall.msg.function_call.name = "get_loans"
    /\ askCall.msg.function_call.arguments.t = "empty"
    /\ askState = "Dispatched"
    /\ ~askCall.reply[1].error
    /\ Len(askResp.functionResult.rows) = 2

\* C19: a request for which the model has returned a decision is in exactly
\* one of the terminal states Dispatched and DirectReply, has produced exactly
\* one response, and has called the model once and at most one query
\* operation once, whatever the function name and the argument text.
C19_OneTerminalState ==
    Decided =>
        /\ askState \in {"Dispatched", "DirectReply"}
        /\ askResp.status = 200
        /\ askCall.modelCalls = 1
        /\ Len(askCall.invoked) <= 1

\* The rows of a sequence with the status "approved", by their index.
ApprovedIndexes(rows) == {i \in 1..Len(rows) : rows[i].status = "approved"}

\* The sum of the amounts of the approved rows.
RECURSIVE SumOfApproved(_)
SumOfApproved(rows) ==
    IF rows = <<>> THEN Num(0)
    ELSE IF Head(rows).status = "approved"
    THEN NumAdd(ToNumber(Head(rows).amount), SumOfApproved(Tail(rows)))
    ELSE SumOfApproved(Tail(rows))

\* loanAmount - sumDrawn for an active loan, and 0 otherwise.
ExpectedReserve(loanReply, rows) ==
    IF ~loanReply.error /\ loanReply.data.status = "active"
    THEN NumSub(ToNumber(loanReply.data.amount), SumOfApproved(rows))
    ELSE Num(0)

\* get_project_status has been invoked and has got the rows of the project.
StatusAggregated ==
    /\ Decided
    /\ askCall.invoked # <<>>
    /\ askCall.invoked[1].op = "get_project_status"
    /\ ~askCall.reply[1].error

\* C20: the project status over the draw rows of a project has totalDraws =
\* the number of rows, approvedDraws = the number of rows with the status
\* "approved", sumDrawn = the sum of the amounts of those rows, and
\* outstandingReserve = loanAmount - sumDrawn when the project's loan has the
\* status "active" and 0 otherwise, also when there is no loan.
C20_ProjectStatus ==
    StatusAggregated =>
        /\ askResp.functionResult.totalDraws = Len(askCall.reply[1].data.rows)
        /\ askResp.functionResult.approvedDraws =
               Cardinality(ApprovedIndexes(askCall.reply[1].data.rows))
        /\ NumEq(askResp.functionResult.sumDrawn,
                 SumOfApproved(askCall.reply[1].data.rows))
        /\ NumEq(askResp.functionResult.outstandingReserve,
                 ExpectedReserve(askCall.reply[2], askCall.reply[1].data.rows))

\* The status of a project with an approved and a submitted draw of 100000
\* each and an active loan of 500000.
C20_Witness ==
    /\ StatusAggregated
    /\ askResp.functionResult.totalDraws = 2
    /\ askResp.functionResult.approvedDraws = 1
    /\ NumEq(askResp.functionResult.sumDrawn, Num(100000))
    /\ NumEq(askResp.functionResult.outstandingReserve, Num(400000))

(***************************************************************************)
(* The project risk, as the specification states it.                       *)
(***************************************************************************)
\* calculate_project_risk has been invoked and has returned.
RiskAggregated ==
    /\ Decided
    /\ askCall.invoked # <<>>
    /\ askCall.invoked[1].op = "calculate_project_risk"
    /\ ~askCall.outcome.threw

\* The sum of the risk scores of rows, from the last row on.
RECURSIVE SumOfScores(_)
SumOfScores(rows) ==
    IF rows = <<>> THEN Num(0)
    ELSE NumAdd(SumOfScores(SubSeq(rows, 1, Len(rows) - 1)),
                ToNumber(rows[Len(rows)].risk_score))

\* C21: averageRisk is the arithmetic mean of risk_score over the draw rows
\* of the project, and 0 when the project has no draw rows.
C21_AverageRisk ==
    RiskAggregated =>
        IF Len(askCall.reply[1].data.rows) = 0
        THEN askResp.functionResult.averageRisk.k = "zero"
        ELSE NumEq(NumMul(askResp.functionResult.averageRisk,
                          Num(Len(askCall.reply[1].data.rows))),
                   SumOfScores(askCall.reply[1].data.rows))

\* The risk of a project without draws, and of one with the scores 50 and 85.
C21_Witness ==
    /\ RiskAggregated
    /\ askCall.reply[1].data.rows = <<[risk_score |-> JNum(Num(50))],
                                      [risk_score |-> JNum(Num(85))]>>
    /\ NumEq(askResp.functionResult.averageRisk, NumFrac(135, 1))

\* The inspections of the reply that are `days` old or less, or or more.
InspectionsWithin(rows, days) == {i \in 1..Len(rows) : rows[i] <= days}

InspectionsFrom(rows, days) == {i \in 1..Len(rows) : rows[i] >= days}

\* C22: overdueInspections is the number of the inspections of the project
\* submitted within the 7 days that end now; an inspection submitted more
\* than 7 days ago is not counted.
C22_TrailingWindow ==
    RiskAggregated =>
        askResp.functionResult.overdueInspections =
            Cardinality(InspectionsWithin(askCall.reply[2].data.rows, 7))

\* C22, amended: overdueInspections is the number of the inspections of the
\* project submitted 7 days ago or earlier; an inspection submitted less than
\* 7 days ago is not counted.
C22_OverdueCount ==
    RiskAggregated =>
        askResp.functionResult.overdueInspections =
            Cardinality(InspectionsFrom(askCall.reply[2].data.rows, 7))

\* Of inspections 1, 7 and 8 days old, two are counted.
C22_Witness ==
    /\ RiskAggregated
    /\ askCall.reply[2].data.rows = <<1, 7, 8>>
    /\ askResp.functionResult.overdueInspections = 2

(***************************************************************************)
(* Determinism, as the specification states it.                            *)
(***************************************************************************)
\* Two calls of calculateRiskScore, one after the other, with the same
\* { amount, description, lastSubmittedAt }.
SameRiskInput ==
    /\ riskCall.made
    /\ riskCall'.made
    /\ ~riskCall.threw
    /\ ~riskCall'.threw
    /\ riskCall'.amount = riskCall.amount
    /\ riskCall'.description = riskCall.description
    /\ riskCall'.lastSubmittedAt = riskCall.lastSubmittedAt

\* C23: the risk score is deterministic and has no hidden state: two calls
\* of calculateRiskScore with identical inputs yield identical scores.
C23_Deterministic == [][SameRiskInput => riskCall'.score = riskCall.score]_vars

(***************************************************************************)
(* The balance of a loan over its payments, as the specification states    *)
(* it.                                                                     *)
(***************************************************************************)
\* The payments of the row i's loan up to that row are of amounts >= 0.
PaidAmountsValid(i) ==
    \A j \in 1..i :
        payments[j].loan_id = payments[i].loan_id =>
            NonNegative(ToNumber(payments[j].amount))

\* C25: over the payments of a loan with a non-negative amount, every
\* recorded remaining_balance is >= 0: a payment larger than the balance plus
\* the interest never drives the balance below 0.
C25_BalanceNonNegative ==
    \A i \in 1..Len(payments) :
        (/\ NonNegative(ParseFloat(loans[payments[i].loan_id].amount))
         /\ PaidAmountsValid(i)) =>
            NonNegative(payments[i].remaining_balance)

(***************************************************************************)
(* The chain of the balances of a loan, as the specification states it.    *)
(***************************************************************************)
\* The rows of a loan among the first n, and the last of them recorded.
RecordedBefore(loanId, n) == {i \in 1..n : payments[i].loan_id = loanId}

LastRecorded(rows) == CHOOSE i \in rows : \A j \in rows : j <= i

\* The balance that follows the first n rows, for a loan.
ChainedBalance(loanId, rows) ==
    IF rows = {} THEN ParseFloat(loans[loanId].amount)
    ELSE payments[LastRecorded(rows)].remaining_balance

\* The last request has recorded its row, and no other row came between its
\* read of the last payment and its insert.
RecordedInTurn ==
    /\ payCall.made
    /\ payCall.recorded
    /\ payCall.seen = Len(payments) - 1

\* C24: whatever the order of the payment_date values, the balance used for
\* a new payment is the remaining balance of the payment recorded immediately
\* before it for the loan, and the amount of the loan for the first payment.
C24_ChainedBalance ==
    RecordedInTurn =>
        NumEq(payCall.balance,
              ChainedBalance(payCall.loanId,
                             RecordedBefore(payCall.loanId, payCall.seen)))

\* The last request has recorded the second row of the table after reading
\* its last payment before the first row was there: the two requests ran
\* concurrently.
RecordedConcurrently ==
    /\ payCall.made
    /\ payCall.recorded
    /\ Len(payments) = 2
    /\ payCall.seen = 0
    /\ payments[1].loan_id = payments[2].loan_id

LowestBalance(x, y) == IF NumLt(x, y) THEN x ELSE y

\* C26: of two payment requests for a loan that run concurrently no update
\* is lost: after both, the lowest remaining balance recorded is the starting
\* balance less the principal applied by both.
C26_NoLostUpdate ==
    RecordedConcurrently =>
        NumEq(LowestBalance(payments[1].remaining_balance,
                            payments[2].remaining_balance),
              NumSub(NumSub(ParseFloat(loans[payCall.loanId].amount),
                            payments[1].applied_principal),
                     payments[2].applied_principal))

(***************************************************************************)
(* The specifications: of the whole API, and of each group of handlers on  *)
(* its own.                                                                *)
(***************************************************************************)
Init == InitRisk /\ InitSchedule /\ InitPayments /\ InitAssistant

NextRisk == SubmitDrawRequest

NextSchedule == CreateLoanRequest \/ GenerateScheduleRequest

NextPayments == RecordPaymentRequest

NextAssistant == AskRequest \/ ModelDecision

Next == NextRisk \/ NextSchedule \/ NextPayments \/ NextAssistant

Spec == Init /\ [][Next]_vars

SpecRisk == Init /\ [][NextRisk]_vars

SpecSchedule == Init /\ [][NextSchedule]_vars

\* Payments on the loans of a database that holds one already.
InitServiced == InitRisk /\ InitServicing /\ InitPayments /\ InitAssistant

SpecPayments == InitServiced /\ [][NextPayments]_vars

SpecAssistant == Init /\ [][NextAssistant]_vars

\* Payment requests that interleave at their awaits.
NextInterleaved == PaymentArrives \/ LoanFetched \/ PaymentInserted

SpecInterleaved == InitServiced /\ [][NextInterleaved]_vars
=============================================================================
